---- MODULE Spec2Model ----
(***************************************************************************)
(* Model of the ESP32 oil dispenser firmware                               *)
(* (src/firmware/esp32_oil_node/src/main.cpp).                             *)
(*                                                                         *)
(* The control loop (loop(), main.cpp:1628) calls calculateFlow,           *)
(* handleKeypad, handleSerial, updateDisplay and handleDashboard in turn;  *)
(* the flow ISR (flowISR, main.cpp:245) interleaves with them.  Each       *)
(* handler is one action.  Handlers are written as operators on a record   *)
(* of the program's globals so that the order of the C statements is kept. *)
(*                                                                         *)
(* Units.  Volumes are in millilitres (target_L, dispensed_L hold mL),     *)
(* pulsesPerLiter is a whole number of pulses per litre, times are in ms.  *)
(* Every timestamp variable X of the code (lastCalcTime, lastPulseTime,    *)
(* settlingStartMs, completeShowMs, lockoutStartMs) is kept as the elapsed *)
(* time millis() - X, which is the only way the code reads it.  An elapsed *)
(* time saturates just above the largest value it is compared with, and it *)
(* advances only in the states in which the code can read it before        *)
(* writing it again.                                                       *)
(***************************************************************************)
EXTENDS Integers, Sequences, FiniteSets, TLC

VARIABLES
    state,                  \* DeviceState                     main.cpp:184
    pumpRunning,            \* pump relay command              main.cpp:207
    flowInterruptAttached,  \* flow ISR attached               main.cpp:208
    settlingActive,         \* post-pump settling window open  main.cpp:211
    pulseCount,             \* volatile ISR counter            main.cpp:194
    lastPulseCount,         \* snapshot of the previous tick   main.cpp:195
    targetPulses,           \*                                 main.cpp:205
    target_L,               \* mL                              main.cpp:204
    dispensed_L,            \* mL                              main.cpp:201
    pulsesPerLiter,         \*                                 main.cpp:149
    stopLagMs,              \*                                 main.cpp:150
    stopExtraPulses,        \*                                 main.cpp:151
    nvs,                    \* Preferences namespace "oilcal"  main.cpp:148
    sinceCalc,              \* millis() - lastCalcTime         main.cpp:197
    sincePulse,             \* millis() - lastPulseTime        main.cpp:196
    sinceSettle,            \* millis() - settlingStartMs      main.cpp:212
    sinceComplete,          \* millis() - completeShowMs       main.cpp:216
    sinceLockout,           \* millis() - lockoutStartMs       main.cpp:236
    wifiConnected,          \*                                 main.cpp:136
    currentCommandId,       \* 0 is the empty string           main.cpp:189
    operatorId,             \* 0 is the empty string           main.cpp:190
    dashboardPrice,         \* 0 = not fetched                 main.cpp:145
    cmdSeq,                 \* commands pulled so far (ids are 1..cmdSeq)
    pinEntry,               \*                                 main.cpp:234
    pinAttempts,            \*                                 main.cpp:235
    calInput,               \*                                 main.cpp:230
    lcd,                    \* message on the LCD: the second line of
                            \* showFault, the first of a refused login
    io,                     \* pump, sensor, receipt and ack calls of the
                            \* handler that ran last, and its "[POLL]
                            \* Command" serial line, in program order
    acks,                   \* acknowledgments posted so far, per command id
    sales,                  \* transactionCount, salesTotal_L (mL) and
                            \* salesTotal_K (thousandths)     main.cpp:240
    salesNvs,               \* Preferences namespace "oilsales"
    edges                   \* runs of flowISR since the loop last wrote
                            \* pulseCount                     main.cpp:245

vars == <<state, pumpRunning, flowInterruptAttached, settlingActive, pulseCount,
          lastPulseCount, targetPulses, target_L, dispensed_L, pulsesPerLiter,
          stopLagMs, stopExtraPulses, nvs, sinceCalc, sincePulse, sinceSettle,
          sinceComplete, sinceLockout, wifiConnected, currentCommandId,
          operatorId, dashboardPrice, cmdSeq, pinEntry, pinAttempts, calInput,
          lcd, io, acks, sales, salesNvs, edges>>

----------------------------------------------------------------------------
(* Program constants *)

DEFAULT_PPL == 263
DEFAULT_STOP_LAG == 300
DEFAULT_STOP_EXTRA == 20
NO_FLOW_TIMEOUT_MS == 6000
OVER_DISPENSE_LIMIT_ML == 50
POST_PUMP_SETTLE_MS == 1500
COAST_FLOW_PERMILLE == 300
MAX_EARLY_STOP_PCT == 40
PRICE_PER_LITER == 45
MIN_LITERS_ML == 50
MAX_LITERS_ML == 50000
MAX_PIN_LENGTH == 6
MAX_PIN_ATTEMPTS == 3
LOCKOUT_DURATION_MS == 30000
COMPLETE_SHOW_MS == 3000
SAMPLE_PERIOD_MS == 250
HTTP_TIMEOUT_MS == 10000
MIN_PPL == 50
MAX_PPL == 2000
MAX_STOP_LAG == 3000
MAX_STOP_EXTRA == 300
CAL_INPUT_MAX == 5
CAL_MIN_ML == 100
CAL_MAX_ML == 5000
OPERATOR_PIN == <<"1", "2", "3", "4">>

\* the float that compares false with every number.  pulsesPerLiter and
\* dispensed_L are floats; every other value they take is a whole number here
NaN == -1

(* Bounds of the model *)

MaxPulses == 7    \* the ISR is not offered past this count
MaxCmds == 2      \* commands the dashboard hands out in one run
Burst == 50       \* edges of one run of the flow sensor

States == {"LOCKED", "ENTER_PIN", "WAIT_DASHBOARD", "AUTHORIZED", "DISPENSING",
           "PAUSED", "COMPLETE", "FAULT", "CAL_MENU", "CAL_REAL_VOL",
           "CAL_OVERSHOOT", "CAL_DISPENSE"}

Digits == {"0", "1", "2", "3", "4", "5", "6", "7", "8", "9"}

Min(a, b) == IF a < b THEN a ELSE b

\* lroundf(n / d) for n >= 0, d > 0: round half away from zero
Round(n, d) == (2 * n + d) \div (2 * d)

----------------------------------------------------------------------------
(* The globals as one record, and its write-back *)

Cur ==
    [state |-> state, pumpRunning |-> pumpRunning,
     flowInterruptAttached |-> flowInterruptAttached,
     settlingActive |-> settlingActive, pulseCount |-> pulseCount,
     lastPulseCount |-> lastPulseCount, targetPulses |-> targetPulses,
     target_L |-> target_L, dispensed_L |-> dispensed_L,
     pulsesPerLiter |-> pulsesPerLiter, stopLagMs |-> stopLagMs,
     stopExtraPulses |-> stopExtraPulses, nvs |-> nvs, sinceCalc |-> sinceCalc,
     sincePulse |-> sincePulse, sinceSettle |-> sinceSettle,
     sinceComplete |-> sinceComplete, sinceLockout |-> sinceLockout,
     wifiConnected |-> wifiConnected, currentCommandId |-> currentCommandId,
     operatorId |-> operatorId, dashboardPrice |-> dashboardPrice,
     cmdSeq |-> cmdSeq, pinEntry |-> pinEntry, pinAttempts |-> pinAttempts,
     calInput |-> calInput, lcd |-> lcd, io |-> io, acks |-> acks,
     sales |-> sales, salesNvs |-> salesNvs, edges |-> edges]

\* lastPulseTime is read in the two dispensing states only, and written on
\* every way into them (startDispense, startCalDispense, resume); it is
\* followed through a pause, which ends in one of them;
\* settlingStartMs is read while settling, completeShowMs on the receipt
\* screen, lockoutStartMs while the attempts are used up.  Outside of these the
\* elapsed times are kept at 0.
PulseTimed(m) == m.state \in {"DISPENSING", "CAL_DISPENSE", "PAUSED"}
LockedOut(m) == m.pinAttempts >= MAX_PIN_ATTEMPTS

Set(m) ==
    /\ state' = m.state
    /\ pumpRunning' = m.pumpRunning
    /\ flowInterruptAttached' = m.flowInterruptAttached
    /\ settlingActive' = m.settlingActive
    /\ pulseCount' = m.pulseCount
    /\ lastPulseCount' = m.lastPulseCount
    /\ targetPulses' = m.targetPulses
    /\ target_L' = m.target_L
    /\ dispensed_L' = m.dispensed_L
    /\ pulsesPerLiter' = m.pulsesPerLiter
    /\ stopLagMs' = m.stopLagMs
    /\ stopExtraPulses' = m.stopExtraPulses
    /\ nvs' = m.nvs
    /\ sinceCalc' = m.sinceCalc
    /\ sincePulse' = IF PulseTimed(m) THEN m.sincePulse ELSE 0
    /\ sinceSettle' = IF m.settlingActive THEN m.sinceSettle ELSE 0
    /\ sinceComplete' = IF m.state = "COMPLETE" THEN m.sinceComplete ELSE 0
    /\ sinceLockout' = IF LockedOut(m) THEN m.sinceLockout ELSE 0
    /\ wifiConnected' = m.wifiConnected
    /\ currentCommandId' = m.currentCommandId
    /\ operatorId' = m.operatorId
    /\ dashboardPrice' = m.dashboardPrice
    /\ cmdSeq' = m.cmdSeq
    /\ pinEntry' = m.pinEntry
    /\ pinAttempts' = m.pinAttempts
    /\ calInput' = m.calInput
    /\ lcd' = m.lcd
    /\ io' = m.io
    /\ acks' = m.acks
    /\ sales' = m.sales
    /\ salesNvs' = m.salesNvs
    /\ edges' = m.edges

Start(m) ==
    /\ state = m.state
    /\ pumpRunning = m.pumpRunning
    /\ flowInterruptAttached = m.flowInterruptAttached
    /\ settlingActive = m.settlingActive
    /\ pulseCount = m.pulseCount
    /\ lastPulseCount = m.lastPulseCount
    /\ targetPulses = m.targetPulses
    /\ target_L = m.target_L
    /\ dispensed_L = m.dispensed_L
    /\ pulsesPerLiter = m.pulsesPerLiter
    /\ stopLagMs = m.stopLagMs
    /\ stopExtraPulses = m.stopExtraPulses
    /\ nvs = m.nvs
    /\ sinceCalc = m.sinceCalc
    /\ sincePulse = m.sincePulse
    /\ sinceSettle = m.sinceSettle
    /\ sinceComplete = m.sinceComplete
    /\ sinceLockout = m.sinceLockout
    /\ wifiConnected = m.wifiConnected
    /\ currentCommandId = m.currentCommandId
    /\ operatorId = m.operatorId
    /\ dashboardPrice = m.dashboardPrice
    /\ cmdSeq = m.cmdSeq
    /\ pinEntry = m.pinEntry
    /\ pinAttempts = m.pinAttempts
    /\ calInput = m.calInput
    /\ lcd = m.lcd
    /\ io = m.io
    /\ acks = m.acks
    /\ sales = m.sales
    /\ salesNvs = m.salesNvs
    /\ edges = m.edges

Out(m, e) == [m EXCEPT !.io = Append(@, e)]

----------------------------------------------------------------------------
(* Time *)

CalcCap == HTTP_TIMEOUT_MS + SAMPLE_PERIOD_MS
PulseCap == NO_FLOW_TIMEOUT_MS + SAMPLE_PERIOD_MS

\* d ms pass (delay(d), a blocking call, or the loop idling)
delay(m, d) ==
    [m EXCEPT
       !.sinceCalc = Min(@ + d, CalcCap),
       !.sincePulse = IF PulseTimed(m)
                      THEN Min(@ + d, PulseCap) ELSE @,
       !.sinceSettle = IF m.settlingActive
                       THEN Min(@ + d, POST_PUMP_SETTLE_MS) ELSE @,
       !.sinceComplete = IF m.state = "COMPLETE"
                         THEN Min(@ + d, COMPLETE_SHOW_MS) ELSE @,
       !.sinceLockout = IF LockedOut(m)
                        THEN Min(@ + d, LOCKOUT_DURATION_MS) ELSE @]

\* how long one HTTP request or one WiFi connection attempt blocks the loop:
\* answered within a sampling period, or run to its timeout
NetDelays == {0, HTTP_TIMEOUT_MS}

----------------------------------------------------------------------------
(* Pump, flow interrupt, calibration store *)

pumpOn(m) == Out([m EXCEPT !.pumpRunning = TRUE], "pumpOn")

pumpOff(m) == Out([m EXCEPT !.pumpRunning = FALSE], "pumpOff")

attachFlow(m) ==
    IF m.flowInterruptAttached THEN m
    ELSE Out([m EXCEPT !.flowInterruptAttached = TRUE], "attachFlow")

\* detachFlow that leaves the interrupt attached
detachFlowNever(m) == m

detachFlow(m) ==
    IF ~m.flowInterruptAttached THEN m
    ELSE Out([m EXCEPT !.flowInterruptAttached = FALSE], "detachFlow")

\* loadCalibration that reads nothing back
loadCalibrationKeep(m, s) == m

\* the sanity clamps of loadCalibration, on the stored profile s.  Both
\* comparisons of the first clamp are false for NaN
loadCalibration(m, s) ==
    [m EXCEPT
       !.pulsesPerLiter = IF s.ppl # NaN /\ (s.ppl < MIN_PPL \/ s.ppl > MAX_PPL)
                          THEN DEFAULT_PPL ELSE s.ppl,
       !.stopLagMs = IF s.stopLag > MAX_STOP_LAG THEN DEFAULT_STOP_LAG ELSE s.stopLag,
       !.stopExtraPulses = IF s.stopExtra > MAX_STOP_EXTRA
                           THEN DEFAULT_STOP_EXTRA ELSE s.stopExtra]

saveCalibration(m) ==
    [m EXCEPT !.nvs = [ppl |-> m.pulsesPerLiter, stopLag |-> m.stopLagMs,
                       stopExtra |-> m.stopExtraPulses]]

resetCalibrationDefaults(m) ==
    saveCalibration([m EXCEPT !.pulsesPerLiter = DEFAULT_PPL,
                              !.stopLagMs = DEFAULT_STOP_LAG,
                              !.stopExtraPulses = DEFAULT_STOP_EXTRA])

----------------------------------------------------------------------------
(* Network helpers.  Each blocks for d ms when WiFi is up, and returns at   *)
(* once when it is down.                                                    *)

sendDashboardReceipt(m, status, d) ==
    IF ~m.wifiConnected THEN m
    ELSE delay(Out(m, "receipt:" \o status), d)

sendCommandAck(m, commandId, ok, message, d) ==
    IF ~m.wifiConnected THEN m
    ELSE LET a == Out(m, (IF ok THEN "ack:ok:" ELSE "ack:fail:") \o message)
         IN delay([a EXCEPT !.acks[commandId] = @ + 1], d)

----------------------------------------------------------------------------
(* Reset *)

resetDispense(m) ==
    LET a == detachFlow(pumpOff(m))
    IN [a EXCEPT !.pulseCount = 0, !.edges = 0, !.lastPulseCount = 0,
                 !.sincePulse = 0, !.sinceCalc = 0, !.dispensed_L = 0,
                 !.target_L = 0, !.targetPulses = 0, !.settlingActive = FALSE,
                 !.sinceSettle = 0]

resetTransaction(m) ==
    [resetDispense(m) EXCEPT !.currentCommandId = 0, !.operatorId = 0]

returnToLocked(m) ==
    [resetTransaction(m) EXCEPT !.pinEntry = <<>>, !.state = "LOCKED", !.lcd = ""]

returnToWaitDashboard(m) ==
    [resetTransaction(m) EXCEPT !.state = "WAIT_DASHBOARD", !.lcd = ""]

----------------------------------------------------------------------------
(* Start of a dispense *)

\* (uint32_t)lroundf(liters * pulsesPerLiter), liters given in mL
PulsesFor(mL, ppl) == Round(mL * ppl, 1000)

\* (float)p / pulsesPerLiter, in whole mL
Volume(p, ppl) == IF ppl = NaN THEN NaN ELSE (p * 1000) \div ppl

startDispense(m, liters) ==
    LET a == resetDispense(m)
        b == attachFlow([a EXCEPT !.target_L = liters,
                                  !.targetPulses = PulsesFor(liters, a.pulsesPerLiter)])
        c == [b EXCEPT !.sincePulse = 0, !.sinceCalc = 0, !.state = "DISPENSING"]
    IN pumpOn(c)

startCalDispense(m) ==
    LET a == resetDispense(m)
        b == attachFlow([a EXCEPT !.target_L = 1000,
                                  !.targetPulses = PulsesFor(1000, a.pulsesPerLiter)])
        c == [b EXCEPT !.state = "CAL_DISPENSE", !.sincePulse = 0, !.sinceCalc = 0]
    IN pumpOn(c)

----------------------------------------------------------------------------
(* Flow sampling, settling, safety monitor, stop predictor *)

\* overPulses of the over-dispense check
OverPulses(ppl) == Round(OVER_DISPENSE_LIMIT_ML * ppl, 1000)

\* stopEarly before the safety cap.  pulsesPerSec = dp * 1000 / dt, and
\* coastPulses = lroundf(pulsesPerSec * (POST_PUMP_SETTLE_MS / 1000) * COAST_FLOW_FACTOR).
\* The uint32_t sums do not wrap for the pulse counts of the model.
StopEarlyRaw(T, dp, dt, ppl, lag, extra) ==
    LET coastPulses == IF dt > 0
                       THEN Round(dp * ((POST_PUMP_SETTLE_MS * COAST_FLOW_PERMILLE) \div 1000),
                                  dt)
                       ELSE 0
        base == coastPulses + extra
        smallAmountPulses == ppl \div 2
        lagPulses == IF dt > 0 THEN Round(dp * lag, dt) ELSE 0
    IN IF T > smallAmountPulses THEN base + lagPulses ELSE base

\* the safety cap: never stop more than MAX_EARLY_STOP_PCT early
\* the early stop without the 40% cap
CapEarlyStopUncapped(stopEarly, T) == stopEarly

CapEarlyStop(stopEarly, T) ==
    LET maxEarlyStop == (T * MAX_EARLY_STOP_PCT) \div 100
    IN IF stopEarly > maxEarlyStop THEN maxEarlyStop ELSE stopEarly

\* the stop point without any early stop
StopAtTarget(T, dp, dt, ppl, lag, extra) == T

StopAt(T, dp, dt, ppl, lag, extra) ==
    LET stopEarly == CapEarlyStop(StopEarlyRaw(T, dp, dt, ppl, lag, extra), T)
    IN IF stopEarly < T THEN T - stopEarly ELSE T

\* the ledger of a fresh store, as loadSalesData reads it
NoSales == [transactionCount |-> 0, salesTotal_L |-> 0, salesTotal_K |-> 0]

saveSalesData(m) == [m EXCEPT !.salesNvs = m.sales]

\* recordTransaction that leaves the store as it is
recordUnsaved(m, liters, kwacha) ==
    [m EXCEPT !.sales.transactionCount = @ + 1,
              !.sales.salesTotal_L = @ + liters,
              !.sales.salesTotal_K = @ + kwacha]

recordTransaction(m, liters, kwacha) ==
    saveSalesData([m EXCEPT !.sales.transactionCount = @ + 1,
                            !.sales.salesTotal_L = @ + liters,
                            !.sales.salesTotal_K = @ + kwacha])

\* showComplete: the ledger entry and the receipt of a finished dispense
showComplete(m, d) ==
    LET priceUsed == IF m.dashboardPrice > 0 THEN m.dashboardPrice
                     ELSE PRICE_PER_LITER
        cost == m.target_L * priceUsed
    IN sendDashboardReceipt(recordTransaction(m, m.dispensed_L, cost), "DONE", d)

showFault(m, msg) == [m EXCEPT !.lcd = msg]

\* the settling branch without the wait for the window
settleAtOnce(m, p, k, d) ==
    LET finalPulses == p + k
        a == [m EXCEPT !.pulseCount = finalPulses, !.edges = @ + k,
                       !.dispensed_L = Volume(finalPulses, m.pulsesPerLiter),
                       !.settlingActive = FALSE]
        b == detachFlow(a)
    IN IF b.state = "CAL_DISPENSE"
       THEN delay([b EXCEPT !.state = "CAL_REAL_VOL", !.calInput = <<>>], 1200)
       ELSE [showComplete([b EXCEPT !.state = "COMPLETE"], d)
               EXCEPT !.sinceComplete = 0]

\* the settling branch.  p is the snapshot of this tick, k the pulses the ISR
\* counts between that snapshot and the final one
settle(m, p, k, d) ==
    IF m.sinceSettle >= POST_PUMP_SETTLE_MS
    THEN LET finalPulses == p + k
             a == [m EXCEPT !.pulseCount = finalPulses, !.edges = @ + k,
                            !.dispensed_L = Volume(finalPulses, m.pulsesPerLiter),
                            !.settlingActive = FALSE]
             b == detachFlow(a)
         IN IF b.state = "CAL_DISPENSE"
            THEN delay([b EXCEPT !.state = "CAL_REAL_VOL", !.calInput = <<>>], 1200)
            ELSE [showComplete([b EXCEPT !.state = "COMPLETE"], d)
                    EXCEPT !.sinceComplete = 0]
    ELSE m

\* the no-flow fault that leaves the interrupt attached
noFlowFaultAttached(m) == showFault([pumpOff(m) EXCEPT !.state = "FAULT"],
                                    "NO FLOW! Check")

\* the no-flow fault
noFlowFault(m) == showFault([detachFlow(pumpOff(m)) EXCEPT !.state = "FAULT"],
                            "NO FLOW! Check")

\* the calibration dispense stopping stopExtraPulses early
calDispenseEarly(m, p) ==
    IF p + m.stopExtraPulses >= m.targetPulses
    THEN [pumpOff(m) EXCEPT !.settlingActive = TRUE, !.sinceSettle = 0]
    ELSE m

\* the calibration dispense: no early stop
calDispense(m, p) ==
    IF p >= m.targetPulses
    THEN [pumpOff(m) EXCEPT !.settlingActive = TRUE, !.sinceSettle = 0]
    ELSE m

\* the normal dispense: over-dispense check, then the early stop
normalDispense(m, p, dp, dt) ==
    IF p > m.targetPulses + OverPulses(m.pulsesPerLiter)
    THEN showFault([detachFlow(pumpOff(m)) EXCEPT !.state = "FAULT"], "OVER-DISPENSE!")
    ELSE IF p >= StopAt(m.targetPulses, dp, dt, m.pulsesPerLiter,
                        m.stopLagMs, m.stopExtraPulses)
         THEN [pumpOff(m) EXCEPT !.settlingActive = TRUE, !.sinceSettle = 0]
         ELSE m

\* calculateFlow past its early return (now - lastCalcTime >= 250)
calculateFlow(m, k, d) ==
    LET p == m.pulseCount
        dt == m.sinceCalc
        dp == p - m.lastPulseCount
        a == [m EXCEPT !.sinceCalc = 0, !.lastPulseCount = p,
                       !.sincePulse = IF dp > 0 THEN 0 ELSE @,
                       !.dispensed_L = Volume(p, m.pulsesPerLiter)]
    IN IF a.settlingActive THEN settle(a, p, k, d)
       ELSE IF a.state \in {"DISPENSING", "CAL_DISPENSE"} /\ a.pumpRunning
               /\ a.sincePulse > NO_FLOW_TIMEOUT_MS
            THEN noFlowFault(a)
       ELSE IF a.state = "CAL_DISPENSE" THEN calDispense(a, p)
       ELSE IF a.state = "DISPENSING" /\ a.pumpRunning /\ a.targetPulses > 0
            THEN normalDispense(a, p, dp, dt)
       ELSE a

----------------------------------------------------------------------------
(* Keypad *)

\* String::toFloat of a digit string
RECURSIVE ToNumber(_)
ToNumber(s) ==
    IF s = <<>> THEN 0
    ELSE 10 * ToNumber(SubSeq(s, 1, Len(s) - 1))
         + (CHOOSE n \in 0..9 : ToString(n) = s[Len(s)])

\* confirm ('#') in STATE_CAL_REAL_VOL without the check of the new value
calConfirmUnchecked(m) ==
    IF m.calInput = <<>> THEN m
    ELSE LET realML == ToNumber(m.calInput)
             oldPPL == m.pulsesPerLiter
         IN IF realML < CAL_MIN_ML \/ realML > CAL_MAX_ML
            THEN [delay(m, 1500) EXCEPT !.calInput = <<>>]
            ELSE LET a == saveCalibration(
                             [m EXCEPT !.pulsesPerLiter = Round(oldPPL * 1000, realML)])
                 IN [delay(a, 2000) EXCEPT !.calInput = <<>>, !.state = "CAL_MENU"]

\* confirm ('#') in STATE_CAL_REAL_VOL taking the reference dispense for half
\* a liter
calConfirmHalfLiter(m) ==
    IF m.calInput = <<>> THEN m
    ELSE LET realML == ToNumber(m.calInput)
             oldPPL == m.pulsesPerLiter
         IN IF realML < CAL_MIN_ML \/ realML > CAL_MAX_ML
            THEN [delay(m, 1500) EXCEPT !.calInput = <<>>]
            ELSE IF oldPPL * 500 < MIN_PPL * realML \/ oldPPL * 500 > MAX_PPL * realML
                 THEN [delay(m, 1500) EXCEPT !.calInput = <<>>]
                 ELSE LET a == saveCalibration(
                                  [m EXCEPT !.pulsesPerLiter = Round(oldPPL * 500, realML)])
                      IN [delay(a, 2000) EXCEPT !.calInput = <<>>, !.state = "CAL_MENU"]

\* confirm ('#') in STATE_CAL_REAL_VOL.  The new pulsesPerLiter is kept to the
\* nearest whole pulse
calConfirm(m) ==
    IF m.calInput = <<>> THEN m
    ELSE LET realML == ToNumber(m.calInput)
             oldPPL == m.pulsesPerLiter
         IN IF realML < CAL_MIN_ML \/ realML > CAL_MAX_ML
            THEN [delay(m, 1500) EXCEPT !.calInput = <<>>]
            ELSE IF oldPPL * 1000 < MIN_PPL * realML \/ oldPPL * 1000 > MAX_PPL * realML
                 THEN [delay(m, 1500) EXCEPT !.calInput = <<>>]
                 ELSE LET a == saveCalibration(
                                  [m EXCEPT !.pulsesPerLiter = Round(oldPPL * 1000, realML)])
                      IN [delay(a, 2000) EXCEPT !.calInput = <<>>, !.state = "CAL_MENU"]

handleCalKeypad(m, key) ==
    CASE m.state = "CAL_MENU" ->
           IF key = "#" THEN startCalDispense(m)
           ELSE IF key = "2" THEN [m EXCEPT !.state = "CAL_OVERSHOOT"]
           ELSE IF key = "3" THEN delay(resetCalibrationDefaults(m), 1500)
           ELSE IF key = "*" THEN [m EXCEPT !.state = "WAIT_DASHBOARD"]
           ELSE m
      [] m.state = "CAL_REAL_VOL" ->
           IF key \in Digits
           THEN IF Len(m.calInput) < CAL_INPUT_MAX
                THEN [m EXCEPT !.calInput = Append(@, key)] ELSE m
           ELSE IF key = "*" THEN [m EXCEPT !.state = "CAL_MENU"]
           ELSE IF key = "#" THEN calConfirm(m)
           ELSE m
      [] m.state = "CAL_OVERSHOOT" ->
           IF key = "2"
           THEN IF m.stopExtraPulses < MAX_STOP_EXTRA
                THEN [m EXCEPT !.stopExtraPulses = @ + 1] ELSE m
           ELSE IF key = "8"
           THEN IF m.stopExtraPulses > 0
                THEN [m EXCEPT !.stopExtraPulses = @ - 1] ELSE m
           ELSE IF key = "#"
           THEN [delay(saveCalibration(m), 1200) EXCEPT !.state = "CAL_MENU"]
           ELSE IF key = "*"
           THEN [loadCalibration(m, m.nvs) EXCEPT !.state = "CAL_MENU"]
           ELSE m
      [] m.state = "CAL_DISPENSE" ->
           IF key = "*"
           THEN LET a == [pumpOff(m) EXCEPT !.settlingActive = FALSE]
                IN [detachFlow(a) EXCEPT !.state = "CAL_MENU"]
           ELSE m
      [] OTHER -> m

\* 'A' in STATE_LOCKED with no lockout check
keyLoginNoLockout(m) ==
    [m EXCEPT !.pinAttempts = IF @ >= MAX_PIN_ATTEMPTS THEN 0 ELSE @,
              !.pinEntry = <<>>, !.state = "ENTER_PIN", !.lcd = ""]

\* 'A' in STATE_LOCKED
keyLogin(m) ==
    IF m.pinAttempts >= MAX_PIN_ATTEMPTS /\ m.sinceLockout < LOCKOUT_DURATION_MS
    THEN [m EXCEPT !.lcd = "LOCKED OUT!"]
    ELSE [m EXCEPT !.pinAttempts = IF @ >= MAX_PIN_ATTEMPTS THEN 0 ELSE @,
                   !.pinEntry = <<>>, !.state = "ENTER_PIN", !.lcd = ""]

\* '#' in STATE_ENTER_PIN with the lockout one failure late
pinConfirmLate(m) ==
    IF m.pinEntry = OPERATOR_PIN
    THEN [delay([m EXCEPT !.pinAttempts = 0, !.pinEntry = <<>>], 800)
            EXCEPT !.state = "WAIT_DASHBOARD"]
    ELSE LET a == delay([m EXCEPT !.pinAttempts = @ + 1, !.pinEntry = <<>>], 1200)
         IN IF a.pinAttempts > MAX_PIN_ATTEMPTS
            THEN [delay([a EXCEPT !.sinceLockout = 0], 1500) EXCEPT !.state = "LOCKED"]
            ELSE a

\* '#' in STATE_ENTER_PIN comparing only the first digits of the entry
pinConfirmPrefix(m) ==
    IF Len(m.pinEntry) >= Len(OPERATOR_PIN)
       /\ SubSeq(m.pinEntry, 1, Len(OPERATOR_PIN)) = OPERATOR_PIN
    THEN [delay([m EXCEPT !.pinAttempts = 0, !.pinEntry = <<>>], 800)
            EXCEPT !.state = "WAIT_DASHBOARD"]
    ELSE LET a == delay([m EXCEPT !.pinAttempts = @ + 1, !.pinEntry = <<>>], 1200)
         IN IF a.pinAttempts >= MAX_PIN_ATTEMPTS
            THEN [delay([a EXCEPT !.sinceLockout = 0], 1500) EXCEPT !.state = "LOCKED"]
            ELSE a

\* '#' in STATE_ENTER_PIN
pinConfirm(m) ==
    IF m.pinEntry = OPERATOR_PIN
    THEN [delay([m EXCEPT !.pinAttempts = 0, !.pinEntry = <<>>], 800)
            EXCEPT !.state = "WAIT_DASHBOARD"]
    ELSE LET a == delay([m EXCEPT !.pinAttempts = @ + 1, !.pinEntry = <<>>], 1200)
         IN IF a.pinAttempts >= MAX_PIN_ATTEMPTS
            THEN [delay([a EXCEPT !.sinceLockout = 0], 1500) EXCEPT !.state = "LOCKED"]
            ELSE a

\* a digit in STATE_ENTER_PIN appended whatever the length of the entry
pinDigitUnbounded(m, key) == [m EXCEPT !.pinEntry = Append(@, key)]

\* a digit in STATE_ENTER_PIN
pinDigit(m, key) ==
    IF Len(m.pinEntry) < MAX_PIN_LENGTH
    THEN [m EXCEPT !.pinEntry = Append(@, key)] ELSE m

\* '*' in STATE_AUTHORIZED: cancel before start
cancelAuthorized(m, d) ==
    LET a == sendDashboardReceipt(m, "CANCELED", d)
        b == IF a.currentCommandId # 0
             THEN sendCommandAck(a, a.currentCommandId, FALSE,
                                 "User canceled before start", d)
             ELSE a
    IN returnToWaitDashboard(b)

\* '*' in STATE_PAUSED: cancel a paused dispense
cancelPaused(m, d) ==
    LET a == detachFlow(pumpOff(m))
    IN returnToWaitDashboard(sendDashboardReceipt(a, "CANCELED", d))

\* '#' in STATE_PAUSED that leaves lastPulseTime as it is
resumeDispenseStale(m) ==
    LET a == attachFlow(m)
        b == pumpOn([a EXCEPT !.sinceCalc = 0])
    IN [b EXCEPT !.state = "DISPENSING"]

\* '#' in STATE_PAUSED: resume
resumeDispense(m) ==
    LET a == attachFlow(m)
        b == pumpOn([a EXCEPT !.sincePulse = 0, !.sinceCalc = 0])
    IN [b EXCEPT !.state = "DISPENSING"]

\* handleKeypad for a key the keypad reports; d is the time each receipt or
\* acknowledgment sent by the handler takes
handleKeypad(m, key, d) ==
    CASE m.state \in {"CAL_MENU", "CAL_REAL_VOL", "CAL_OVERSHOOT", "CAL_DISPENSE"} ->
           handleCalKeypad(m, key)
      [] m.state = "LOCKED" -> IF key = "A" THEN keyLogin(m) ELSE m
      [] m.state = "ENTER_PIN" ->
           IF key \in Digits THEN pinDigit(m, key)
           ELSE IF key = "#" THEN pinConfirm(m)
           ELSE IF key = "*" THEN [m EXCEPT !.pinEntry = <<>>, !.state = "LOCKED"]
           ELSE IF key = "B"
           THEN IF Len(m.pinEntry) > 0
                THEN [m EXCEPT !.pinEntry = SubSeq(@, 1, Len(@) - 1)] ELSE m
           ELSE m
      [] m.state = "WAIT_DASHBOARD" -> IF key = "*" THEN returnToLocked(m) ELSE m
      [] m.state = "AUTHORIZED" ->
           IF key = "D" THEN startDispense(m, m.target_L)
           ELSE IF key = "*" THEN cancelAuthorized(m, d)
           ELSE m
      [] m.state = "DISPENSING" ->
           IF key = "*"
           THEN LET a == [pumpOff(m) EXCEPT !.settlingActive = FALSE]
                IN [detachFlow(a) EXCEPT !.state = "PAUSED"]
           ELSE m
      [] m.state = "PAUSED" ->
           IF key = "#" THEN resumeDispense(m)
           ELSE IF key = "*" THEN cancelPaused(m, d)
           ELSE m
      [] m.state = "COMPLETE" -> returnToWaitDashboard(m)
      [] m.state = "FAULT" -> returnToWaitDashboard(detachFlow(pumpOff(m)))
      [] OTHER -> m

\* '*' held for CAL_HOLD_MS in STATE_WAIT_DASHBOARD: the iteration of
\* handleKeypad in which the hold time is reached
enterCalMenu(m) == delay([m EXCEPT !.state = "CAL_MENU"], 400)

----------------------------------------------------------------------------
(* Serial console; c is the command character *)

connectWiFi(m, d, ok) == [delay(m, d) EXCEPT !.wifiConnected = ok]

handleSerial(m, c, d, ok) ==
    CASE c = "r" -> returnToLocked(resetTransaction(detachFlow(pumpOff(m))))
      [] c = "d" -> resetCalibrationDefaults(m)
      [] c = "w" -> IF m.wifiConnected THEN m ELSE connectWiFi(m, d, ok)
      [] OTHER -> m

----------------------------------------------------------------------------
(* Display refresh: the auto-return from the receipt screen *)

updateDisplay(m) ==
    IF m.state = "COMPLETE" /\ m.sinceComplete >= COMPLETE_SHOW_MS
    THEN returnToWaitDashboard(m)
    ELSE m

----------------------------------------------------------------------------
(* Dashboard *)

\* fields a payload may leave out are -1 (liters, price) or 0 (operatorId)
Absent == -1

\* a pulled command: the id is assigned by the dashboard in the order of pulls
Command(type, liters, operator, price) ==
    [type |-> type, liters |-> liters, operatorId |-> operator, price |-> price]

cmdPumpOn(m, cmdId, d) == sendCommandAck(pumpOn(m), cmdId, TRUE, "Pump ON", d)

cmdPumpOff(m, cmdId, d) ==
    LET a == [pumpOff(m) EXCEPT !.settlingActive = FALSE]
        b == IF a.state = "DISPENSING"
             THEN returnToWaitDashboard(
                      sendDashboardReceipt(detachFlow(a), "EMERGENCY_STOP", d))
             ELSE a
    IN sendCommandAck(b, cmdId, TRUE, "Pump OFF", d)

cmdSetPrice(m, cmdId, cmd, d) ==
    IF cmd.price # Absent
    THEN IF cmd.price > 0
         THEN sendCommandAck([m EXCEPT !.dashboardPrice = cmd.price], cmdId, TRUE,
                             "Price updated", d)
         ELSE sendCommandAck(m, cmdId, FALSE, "Invalid price", d)
    ELSE sendCommandAck(m, cmdId, FALSE, "Missing price field", d)

\* DISPENSE_TARGET without the check of the state
cmdDispenseTargetAnyState(m, cmdId, cmd, d) ==
    IF cmd.liters = Absent
    THEN sendCommandAck(m, cmdId, FALSE, "Missing liters field", d)
    ELSE IF cmd.liters >= MIN_LITERS_ML /\ cmd.liters <= MAX_LITERS_ML
    THEN sendCommandAck([m EXCEPT !.currentCommandId = cmdId,
                                  !.target_L = cmd.liters,
                                  !.state = "AUTHORIZED"], cmdId, TRUE,
                        "Ready to dispense", d)
    ELSE sendCommandAck(m, cmdId, FALSE, "Invalid target liters", d)

cmdDispenseTarget(m, cmdId, cmd, d) ==
    IF m.state # "WAIT_DASHBOARD"
    THEN sendCommandAck(m, cmdId, FALSE, "Device busy", d)
    ELSE IF cmd.liters = Absent
    THEN sendCommandAck(m, cmdId, FALSE, "Missing liters field", d)
    ELSE LET a == [m EXCEPT !.currentCommandId = cmdId,
                            !.operatorId = IF cmd.operatorId # 0
                                           THEN cmd.operatorId ELSE @,
                            !.dashboardPrice = IF cmd.price # Absent
                                               THEN cmd.price ELSE @]
         IN IF cmd.liters >= MIN_LITERS_ML /\ cmd.liters <= MAX_LITERS_ML
            THEN sendCommandAck([a EXCEPT !.target_L = cmd.liters,
                                          !.state = "AUTHORIZED"], cmdId, TRUE,
                                "Ready to dispense", d)
            ELSE sendCommandAck(a, cmdId, FALSE, "Invalid target liters", d)

\* pollDashboardCommands when the pull returns a command (a pull that runs to
\* its timeout returns none: httpRequest below); d is the time of each request
\* sent while handling it
pollDashboardCommands(m, cmd, d) ==
    IF ~m.wifiConnected THEN m
    ELSE LET cmdId == m.cmdSeq + 1
             a == Out([m EXCEPT !.cmdSeq = cmdId], "poll:" \o cmd.type)
         IN CASE cmd.type = "PUMP_ON" -> cmdPumpOn(a, cmdId, d)
              [] cmd.type = "PUMP_OFF" -> cmdPumpOff(a, cmdId, d)
              [] cmd.type = "SET_PRICE_PER_LITER" -> cmdSetPrice(a, cmdId, cmd, d)
              [] cmd.type = "DISPENSE_TARGET" -> cmdDispenseTarget(a, cmdId, cmd, d)
              [] OTHER -> sendCommandAck(a, cmdId, FALSE, "Unknown command type", d)

\* sendTelemetry, sendHeartbeat, and a pull that returns no command: one
\* request, nothing else
httpRequest(m, d) == IF ~m.wifiConnected THEN m ELSE delay(m, d)

\* fetchDeviceConfig; price is the pricePerLiter of the answer, or Absent
fetchDeviceConfig(m, price, d) ==
    IF ~m.wifiConnected THEN m
    ELSE [delay(m, d) EXCEPT !.dashboardPrice = IF price # Absent THEN price ELSE @]

\* checkWiFi when the retry interval has passed
checkWiFi(m, d, ok) == IF m.wifiConnected THEN m ELSE connectWiFi(m, d, ok)

----------------------------------------------------------------------------
(* Inputs offered by the environment.  An environment e names the keys,   *)
(* serial commands, dashboard commands and config prices that are offered,  *)
(* and the calibration values the operator's tuning and measurements may    *)
(* lead to.                                                                 *)

\* what the operator sets out to type at the PIN prompt and at the
\* measured-volume prompt; every prefix can be confirmed
PinTries == {OPERATOR_PIN, <<"1", "2", "3", "4", "1", "2", "3">>}
CalTries == {<<"1", "0", "0", "0">>, <<"5", "0", "0", "0", "0", "0">>}

IsPrefix(s, t) == Len(s) <= Len(t) /\ s = SubSeq(t, 1, Len(s))

\* the profiles the Preferences store may hold at boot
StoredProfiles == {[ppl |-> 50, stopLag |-> 300, stopExtra |-> 0]}

\* the handler's result keeps the calibration within the values of e
ProfileOffered(e, r) ==
    r.pulsesPerLiter \in e.ppl /\ r.stopExtraPulses \in e.stopExtra

\* the keys the operator presses: digits that continue one of the entries
\* of e, and the measured-volume prompt left only while it is empty.  A
\* reference dispense is not started on a NaN pulsesPerLiter: lroundf of NaN
\* (main.cpp:945) is an unspecified value
KeyOffered(e, key) ==
    /\ key \in e.keys
    /\ (state = "ENTER_PIN" /\ key \in Digits)
          => \E t \in e.pinTries : IsPrefix(Append(pinEntry, key), t)
    /\ (state = "CAL_REAL_VOL" /\ key \in Digits)
          => \E t \in e.calTries : IsPrefix(Append(calInput, key), t)
    /\ (state = "CAL_REAL_VOL" /\ key = "*") => calInput = <<>>
    /\ (state = "CAL_MENU" /\ key = "#") => pulsesPerLiter # NaN
    /\ ProfileOffered(e, handleCalKeypad(Cur, key))

\* the dispensing environment: login, remote authorization, emergency
\* commands, dispense, pause, cancel, calibration dispense
DispenseEnv ==
    [keys |-> {"1", "2", "3", "4", "*", "#", "A", "B", "D"},
     serial |-> {"r", "d", "w"},
     commands |-> {Command("PUMP_ON", Absent, 0, Absent),
                   Command("PUMP_OFF", Absent, 0, Absent),
                   Command("REBOOT", Absent, 0, Absent),
                   Command("SET_PRICE_PER_LITER", Absent, 0, Absent),
                   Command("DISPENSE_TARGET", Absent, 0, Absent),
                   Command("DISPENSE_TARGET", 60000, 1, Absent),
                   Command("DISPENSE_TARGET", 50, 1, Absent)},
     prices |-> {Absent},
     ppl |-> {50},
     stopExtra |-> {0},
     bursts |-> {1, Burst},
     pinTries |-> PinTries,
     calTries |-> CalTries]

\* the stop-point environment: a dispense under way, runs of edges of several
\* lengths, requests that block the loop; no operator, no commands
StopEnv ==
    [keys |-> {}, serial |-> {}, commands |-> {}, prices |-> {},
     ppl |-> {MIN_PPL, DEFAULT_PPL, MAX_PPL},
     stopExtra |-> {0, DEFAULT_STOP_EXTRA, MAX_STOP_EXTRA},
     stopLag |-> {0, DEFAULT_STOP_LAG, MAX_STOP_LAG},
     liters |-> {MIN_LITERS_ML, 1000, MAX_LITERS_ML},
     bursts |-> {1, 40, 1500, 70000},
     pinTries |-> {}, calTries |-> {}]

\* the calibration environment: login, the calibration menu, reference
\* dispenses that run to their target, measured volumes, overshoot tuning,
\* the serial resets; WiFi down
CalEnv ==
    [keys |-> {"0", "1", "2", "3", "4", "5", "8", "*", "#", "A"},
     serial |-> {"r", "d"},
     commands |-> {}, prices |-> {},
     ppl |-> {NaN} \cup (0..(2 * MAX_PPL)),
     stopExtra |-> {0, 1, DEFAULT_STOP_EXTRA, MAX_STOP_EXTRA - 1, MAX_STOP_EXTRA},
     bursts |-> {MAX_PPL},
     pinTries |-> {OPERATOR_PIN},
     calTries |-> {<<"1", "0", "0", "0">>, <<"5", "0", "0">>}]

\* the reference-dispense environment: a calibration dispense under way on
\* each calibration, runs of edges that end at, and one short of, its target
RefEnv ==
    [keys |-> {}, serial |-> {}, commands |-> {}, prices |-> {},
     ppl |-> {MIN_PPL, DEFAULT_PPL, MAX_PPL},
     stopExtra |-> {0, DEFAULT_STOP_EXTRA, MAX_STOP_EXTRA},
     stopLag |-> {0, DEFAULT_STOP_LAG, MAX_STOP_LAG},
     bursts |-> {1, MIN_PPL - 1, MIN_PPL, DEFAULT_PPL - 1, DEFAULT_PPL,
                 MAX_PPL - 1, MAX_PPL},
     pinTries |-> {}, calTries |-> {}]

\* the session environment: a dispense under way, paused and resumed at the
\* keypad, with the serial console in use
SessionEnv ==
    [keys |-> {"*", "#"}, serial |-> {"d"}, commands |-> {}, prices |-> {},
     ppl |-> {MIN_PPL, DEFAULT_PPL},
     stopExtra |-> {0, DEFAULT_STOP_EXTRA},
     stopLag |-> {DEFAULT_STOP_LAG},
     liters |-> {MIN_LITERS_ML, 1000},
     bursts |-> {1, 40},
     pinTries |-> {}, calTries |-> {}]

\* scenario A: the default calibration, a target of 5 L, and a flow of 1 L
\* per 30 s, which is 263 edges in 120 sampling periods: 2 or 3 per period
ScenarioEnv ==
    [keys |-> {}, serial |-> {}, commands |-> {}, prices |-> {},
     ppl |-> {DEFAULT_PPL},
     stopExtra |-> {DEFAULT_STOP_EXTRA},
     stopLag |-> {DEFAULT_STOP_LAG},
     liters |-> {5000},
     bursts |-> {2, 3},
     pinTries |-> {}, calTries |-> {}]

\* the unattended environment: a dispense or a reference dispense under way,
\* nobody at the keypad or the console, the dashboard sending pump commands
UnattendedEnv ==
    [keys |-> {}, serial |-> {},
     commands |-> {Command("PUMP_ON", Absent, 0, Absent),
                   Command("PUMP_OFF", Absent, 0, Absent)},
     prices |-> {},
     ppl |-> {MIN_PPL},
     stopExtra |-> {0},
     stopLag |-> {DEFAULT_STOP_LAG},
     liters |-> {MIN_LITERS_ML},
     bursts |-> {1, MIN_PPL},
     pinTries |-> {}, calTries |-> {}]

\* profiles saveCalibration may have written
ValidProfiles ==
    {[ppl |-> MIN_PPL, stopLag |-> 0, stopExtra |-> 0],
     [ppl |-> DEFAULT_PPL, stopLag |-> DEFAULT_STOP_LAG, stopExtra |-> DEFAULT_STOP_EXTRA],
     [ppl |-> MAX_PPL, stopLag |-> MAX_STOP_LAG, stopExtra |-> MAX_STOP_EXTRA]}

\* what the three keys of the store may hold at boot: a float, a uint32 and
\* a uint16 that this firmware need not have written
BootProfiles ==
    ValidProfiles \cup
    {[ppl |-> MIN_PPL - 1, stopLag |-> MAX_STOP_LAG + 1, stopExtra |-> MAX_STOP_EXTRA + 1],
     [ppl |-> MAX_PPL + 1, stopLag |-> 0, stopExtra |-> 65535],
     [ppl |-> 0, stopLag |-> 65536, stopExtra |-> 0],
     [ppl |-> NaN, stopLag |-> DEFAULT_STOP_LAG, stopExtra |-> DEFAULT_STOP_EXTRA]}

----------------------------------------------------------------------------
(* Initial state: setup() has run (main.cpp:1543-1626) *)

InitRecord(s, wifi) ==
    loadCalibration(
        [state |-> "LOCKED", pumpRunning |-> FALSE, flowInterruptAttached |-> FALSE,
         settlingActive |-> FALSE, pulseCount |-> 0, lastPulseCount |-> 0,
         targetPulses |-> 0, target_L |-> 0, dispensed_L |-> 0,
         pulsesPerLiter |-> DEFAULT_PPL, stopLagMs |-> DEFAULT_STOP_LAG,
         stopExtraPulses |-> DEFAULT_STOP_EXTRA, nvs |-> s, sinceCalc |-> 0,
         sincePulse |-> 0, sinceSettle |-> 0, sinceComplete |-> 0,
         sinceLockout |-> 0, wifiConnected |-> wifi, currentCommandId |-> 0,
         operatorId |-> 0, dashboardPrice |-> 0, cmdSeq |-> 0, pinEntry |-> <<>>,
         pinAttempts |-> 0, calInput |-> <<>>, lcd |-> "", io |-> <<>>,
         acks |-> [id \in 1..MaxCmds |-> 0],
         sales |-> NoSales, salesNvs |-> NoSales, edges |-> 0], s)

Init == \E s \in StoredProfiles, wifi \in BOOLEAN : Start(InitRecord(s, wifi))

\* boot without WiFi on a store written by saveCalibration
InitCal == \E s \in ValidProfiles : Start(InitRecord(s, FALSE))

\* boot without WiFi on any store
InitBoot == \E s \in BootProfiles : Start(InitRecord(s, FALSE))

\* a reference dispense just started by '#' in CAL_MENU, WiFi down, for each
\* calibration of e
InitReference(e) ==
    \E ppl \in e.ppl, lag \in e.stopLag, extra \in e.stopExtra :
       LET s == [ppl |-> ppl, stopLag |-> lag, stopExtra |-> extra]
       IN Start(startCalDispense([InitRecord(s, FALSE) EXCEPT !.state = "CAL_MENU"]))

\* a dispense just started by 'D' in AUTHORIZED, for each calibration and
\* target of e
InitDispensing(e) ==
    \E ppl \in e.ppl, lag \in e.stopLag, extra \in e.stopExtra, liters \in e.liters :
       LET s == [ppl |-> ppl, stopLag |-> lag, stopExtra |-> extra]
           a == [InitRecord(s, TRUE) EXCEPT !.state = "AUTHORIZED",
                                            !.target_L = liters,
                                            !.currentCommandId = 1,
                                            !.operatorId = 1, !.cmdSeq = 1,
                                            !.acks[1] = 1]
       IN Start(startDispense(a, liters))

\* a reference dispense just started by '#' in CAL_MENU, WiFi up
InitReferenceOnline(e) ==
    \E ppl \in e.ppl, lag \in e.stopLag, extra \in e.stopExtra :
       LET s == [ppl |-> ppl, stopLag |-> lag, stopExtra |-> extra]
       IN Start(startCalDispense([InitRecord(s, TRUE) EXCEPT !.state = "CAL_MENU"]))

\* the handler's input: the globals, with the call log of the handler begun afresh
In == [Cur EXCEPT !.io = <<>>]

----------------------------------------------------------------------------
(* Actions *)

\* flowISR: n edges of the flow sensor, between two steps of the loop, while
\* the interrupt is attached.  Edges come one at a time up to MaxPulses, or
\* as one run of edges from a fresh count, as e has them
FlowISR(e) ==
    /\ flowInterruptAttached
    /\ \E n \in e.bursts :
          /\ n = 1 => pulseCount < MaxPulses
          /\ n > 1 => pulseCount = 0
          /\ pulseCount' = pulseCount + n
          /\ edges' = edges + n
    /\ UNCHANGED <<state, pumpRunning, flowInterruptAttached, settlingActive,
                   lastPulseCount, targetPulses, target_L, dispensed_L,
                   pulsesPerLiter, stopLagMs, stopExtraPulses, nvs, sinceCalc,
                   sincePulse, sinceSettle, sinceComplete, sinceLockout,
                   wifiConnected, currentCommandId, operatorId, dashboardPrice,
                   cmdSeq, pinEntry, pinAttempts, calInput, lcd, io, acks,
                   sales, salesNvs>>

\* a sampling period passes with the loop spinning; the loop runs
\* calculateFlow as soon as the period is over, so no more time passes before
Elapse ==
    /\ sinceCalc < SAMPLE_PERIOD_MS
    /\ Set(delay(In, SAMPLE_PERIOD_MS))

CalculateFlow ==
    /\ sinceCalc >= SAMPLE_PERIOD_MS
    /\ \E r \in {calculateFlow(In, k, d) :
                   k \in IF flowInterruptAttached /\ pulseCount < MaxPulses
                         THEN {0, 1} ELSE {0},
                   d \in NetDelays} : Set(r)

\* the other handlers follow calculateFlow in loop(): when they run, the
\* sampling that was due has been done
Sampled == sinceCalc < SAMPLE_PERIOD_MS

HandleKeypad(e) ==
    /\ Sampled
    /\ \E r \in {handleKeypad(In, key, d) :
                   key \in {k \in e.keys : KeyOffered(e, k)}, d \in NetDelays} : Set(r)

HoldStar ==
    /\ Sampled
    /\ state = "WAIT_DASHBOARD"
    /\ Set(enterCalMenu(In))

\* like the '*' key, the console is left alone while a measured volume is
\* being typed
HandleSerial(e) ==
    /\ Sampled
    /\ state = "CAL_REAL_VOL" => calInput = <<>>
    /\ \E r \in {handleSerial(In, c, d, ok) :
                   c \in {x \in e.serial : x = "w" => ~wifiConnected},
                   d \in NetDelays, ok \in BOOLEAN} :
          /\ ProfileOffered(e, r)
          /\ Set(r)

UpdateDisplay ==
    /\ Sampled
    /\ state = "COMPLETE" /\ sinceComplete >= COMPLETE_SHOW_MS
    /\ Set(updateDisplay(In))

CheckWiFi ==
    /\ Sampled
    /\ ~wifiConnected
    /\ \E r \in {checkWiFi(In, d, ok) : d \in NetDelays, ok \in BOOLEAN} : Set(r)

HttpRequest ==
    /\ Sampled
    /\ wifiConnected
    /\ \E d \in NetDelays : Set(httpRequest(In, d))

FetchDeviceConfig(e) ==
    /\ Sampled
    /\ wifiConnected
    /\ \E r \in {fetchDeviceConfig(In, price, d) :
                   price \in e.prices, d \in NetDelays} : Set(r)

PollDashboardCommands(e) ==
    /\ Sampled
    /\ wifiConnected
    /\ cmdSeq < MaxCmds
    /\ \E r \in {pollDashboardCommands(In, cmd, d) :
                   cmd \in e.commands, d \in NetDelays} : Set(r)

Next(e) ==
    \/ FlowISR(e)
    \/ Elapse
    \/ CalculateFlow
    \/ HandleKeypad(e)
    \/ HoldStar
    \/ HandleSerial(e)
    \/ UpdateDisplay
    \/ CheckWiFi
    \/ HttpRequest
    \/ FetchDeviceConfig(e)
    \/ PollDashboardCommands(e)

Spec == Init /\ [][Next(DispenseEnv)]_vars

\* the sampling of a dispense under way, for the stop point
NextStop ==
    \/ FlowISR(StopEnv)
    \/ Elapse
    \/ CalculateFlow
    \/ HttpRequest

SpecStop == InitDispensing(StopEnv) /\ [][NextStop]_vars

\* the operator at the keypad and the serial console, for the calibration
NextCal ==
    \/ FlowISR(CalEnv)
    \/ Elapse
    \/ CalculateFlow
    \/ HandleKeypad(CalEnv)
    \/ HoldStar
    \/ HandleSerial(CalEnv)

SpecCal == InitCal /\ [][NextCal]_vars

SpecBoot == InitBoot /\ [][NextCal]_vars

\* a dispense under way with the operator at the keypad and the console
NextSession ==
    \/ FlowISR(SessionEnv)
    \/ Elapse
    \/ CalculateFlow
    \/ HandleKeypad(SessionEnv)
    \/ HandleSerial(SessionEnv)

SpecSession == InitDispensing(SessionEnv) /\ [][NextSession]_vars

\* flowISR at a steady rate: the edges of one sampling period, while the
\* pump runs
SteadyFlow(e) ==
    /\ flowInterruptAttached /\ pumpRunning
    /\ sinceCalc >= SAMPLE_PERIOD_MS
    /\ pulseCount = lastPulseCount
    /\ \E n \in e.bursts :
          /\ pulseCount' = pulseCount + n
          /\ edges' = edges + n
    /\ UNCHANGED <<state, pumpRunning, flowInterruptAttached, settlingActive,
                   lastPulseCount, targetPulses, target_L, dispensed_L,
                   pulsesPerLiter, stopLagMs, stopExtraPulses, nvs, sinceCalc,
                   sincePulse, sinceSettle, sinceComplete, sinceLockout,
                   wifiConnected, currentCommandId, operatorId, dashboardPrice,
                   cmdSeq, pinEntry, pinAttempts, calInput, lcd, io, acks,
                   sales, salesNvs>>

\* the tick of a period in which the steady flow has arrived
SteadyTick ==
    /\ pumpRunning => pulseCount # lastPulseCount
    /\ CalculateFlow

\* scenario A: a dispense under way at a steady flow, sampled on time
NextScenario ==
    \/ SteadyFlow(ScenarioEnv)
    \/ Elapse
    \/ SteadyTick

SpecScenario == InitDispensing(ScenarioEnv) /\ [][NextScenario]_vars

\* a dispense left to itself: the sensor, the sampler and the dashboard
NextUnattended ==
    \/ FlowISR(UnattendedEnv)
    \/ Elapse
    \/ CalculateFlow
    \/ PollDashboardCommands(UnattendedEnv)

\* loop() calls calculateFlow on every iteration and never blocks for good:
\* time passes and the sampler runs
SpecUnattended ==
    /\ InitDispensing(UnattendedEnv) \/ InitReferenceOnline(UnattendedEnv)
    /\ [][NextUnattended]_vars
    /\ WF_vars(Elapse)
    /\ WF_vars(CalculateFlow)

\* the sampling of a reference dispense under way
NextRef ==
    \/ FlowISR(RefEnv)
    \/ Elapse
    \/ CalculateFlow

SpecRef == InitReference(RefEnv) /\ [][NextRef]_vars

----------------------------------------------------------------------------
(* Properties *)

\* the two states in which the pump is meant to run
PumpStates == {"DISPENSING", "CAL_DISPENSE"}

\* C1: the pump is on only while the state is DISPENSING or CAL_DISPENSE,
\* whatever keys, ticks, serial input and remote commands arrive.
C1_PumpOnOnlyWhileDispensing == pumpRunning => state \in PumpStates

\* C2: COMPLETE is never entered with more settled pulses than
\* targetPulses + overPulses.
C2_CompleteWithinLimit ==
    [][(state # "COMPLETE" /\ state' = "COMPLETE")
          => pulseCount' <= targetPulses' + OverPulses(pulsesPerLiter')]_vars

\* C3: a tick that finds the pump on in DISPENSING or CAL_DISPENSE with more
\* pulses than targetPulses + overPulses turns the pump off and enters FAULT,
\* whatever the other flags are.
C3_OverDispenseFaultsOnTick ==
    [][(/\ CalculateFlow
        /\ pumpRunning /\ state \in PumpStates
        /\ pulseCount > targetPulses + OverPulses(pulsesPerLiter))
          => (state' = "FAULT" /\ ~pumpRunning')]_vars

\* C4: while the settling window is open the pump is off and the flow
\* interrupt is attached.
C4_SettlingPumpOffSensorOn ==
    settlingActive => (~pumpRunning /\ flowInterruptAttached)

\* C5: a tick that finds the pump on in DISPENSING or CAL_DISPENSE, with no
\* pulse for more than NO_FLOW_TIMEOUT_MS, turns the pump off, detaches the
\* interrupt and enters FAULT with the no-flow message.
C5_NoFlowFaultsOnTick ==
    [][(/\ CalculateFlow
        /\ pumpRunning /\ state \in PumpStates
        /\ pulseCount' = lastPulseCount
        /\ sincePulse > NO_FLOW_TIMEOUT_MS)
          => (/\ state' = "FAULT" /\ ~pumpRunning' /\ ~flowInterruptAttached'
              /\ lcd' = "NO FLOW! Check")]_vars

\* C6: while the pump runs, the time since the last evaluation of the safety
\* checks never exceeds the sampling period, whatever the network does.
C6_SamplingNeverDelayed ==
    (pumpRunning /\ state \in PumpStates) => sinceCalc <= SAMPLE_PERIOD_MS

\* C7: at a tick of a dispense the pump is stopped exactly when the pulses
\* reach stopAt, and targetPulses * 0.6 <= stopAt <= targetPulses, for targets
\* of 0.05 to 50 L, 50 to 2000 pulses per litre, stop lags up to 3000 ms, extra
\* pulses up to 300, and any pulse increment and sampling interval.
C7_StopAtWithinBounds ==
    [][(/\ CalculateFlow
        /\ state = "DISPENSING" /\ pumpRunning /\ ~settlingActive
        /\ targetPulses > 0
        /\ pulseCount <= targetPulses + OverPulses(pulsesPerLiter)
        /\ ~(pulseCount = lastPulseCount /\ sincePulse > NO_FLOW_TIMEOUT_MS))
          => LET stopAt == StopAt(targetPulses, pulseCount - lastPulseCount,
                                  sinceCalc, pulsesPerLiter, stopLagMs,
                                  stopExtraPulses)
             IN /\ targetPulses * 60 <= stopAt * 100
                /\ stopAt <= targetPulses
                /\ pumpRunning' <=> pulseCount < stopAt]_vars

\* C7 witness: a first tick has stopped the pump ahead of the target, with the
\* uncapped early stop above 40% of the target
C7_StoppedAtCap ==
    /\ state = "DISPENSING" /\ settlingActive /\ ~pumpRunning
    /\ io = <<"pumpOff">>
    /\ pulseCount < targetPulses
    /\ pulseCount * 100 >= targetPulses * 60
    /\ StopEarlyRaw(targetPulses, lastPulseCount, SAMPLE_PERIOD_MS,
                    pulsesPerLiter, stopLagMs, stopExtraPulses)
          > (targetPulses * MAX_EARLY_STOP_PCT) \div 100

\* C8: in FAULT the pump is off; no tick, timer or remote command turns it on.
C8_FaultKeepsPumpOff == state = "FAULT" => ~pumpRunning

\* C9: the operator's cancel from PAUSED and from AUTHORIZED issues the
\* pump-off before any receipt or acknowledgement.
C9_CancelPumpOffFirst ==
    [][(state \in {"PAUSED", "AUTHORIZED"} /\ state' = "WAIT_DASHBOARD")
          => (io' # <<>> /\ Head(io') = "pumpOff")]_vars

\* C10: a remote PUMP_OFF that finds a session active (dispensing, settling,
\* paused, calibration dispense) ends it: pump off, interrupt detached, state
\* WAIT_DASHBOARD.
C10_PumpOffEndsSession ==
    [][(/\ cmdSeq' # cmdSeq /\ Head(io') = "poll:PUMP_OFF"
        /\ state \in {"DISPENSING", "PAUSED", "CAL_DISPENSE"})
          => (/\ ~pumpRunning' /\ ~flowInterruptAttached'
              /\ state' = "WAIT_DASHBOARD")]_vars

\* the step pulls a command of the given type
Pulled(type) == cmdSeq' # cmdSeq /\ Head(io') = "poll:" \o type

\* C11: a DISPENSE_TARGET pulled in a state other than WAIT_DASHBOARD is
\* acknowledged once, negatively, as "Device busy", and leaves the state, the
\* target, the pump command and the session fields as they were.
C11_BusyOutsideWaitDashboard ==
    [][(Pulled("DISPENSE_TARGET") /\ state # "WAIT_DASHBOARD")
          => (/\ io' = <<"poll:DISPENSE_TARGET", "ack:fail:Device busy">>
              /\ acks' = [acks EXCEPT ![cmdSeq'] = 1]
              /\ UNCHANGED <<state, target_L, targetPulses, pumpRunning,
                             flowInterruptAttached, settlingActive, pulseCount,
                             lastPulseCount, dispensed_L, currentCommandId,
                             operatorId, dashboardPrice>>)]_vars

\* C11 witness: a DISPENSE_TARGET has just been refused as busy during a
\* dispense, with the pump still running
C11_BusyWhileDispensing ==
    /\ state = "DISPENSING" /\ pumpRunning /\ target_L = 50
    /\ io = <<"poll:DISPENSE_TARGET", "ack:fail:Device busy">>

\* C12: a DISPENSE_TARGET refused in WAIT_DASHBOARD for its payload (no
\* liters, or liters out of range) is acknowledged negatively and changes
\* none of state, target_L, dashboardPrice, operatorId, currentCommandId.
C12_RejectedPayloadAppliesNothing ==
    [][(/\ Pulled("DISPENSE_TARGET")
        /\ state = "WAIT_DASHBOARD" /\ state' # "AUTHORIZED")
          => (/\ io'[Len(io')] \in {"ack:fail:Missing liters field",
                                    "ack:fail:Invalid target liters"}
              /\ UNCHANGED <<state, target_L, dashboardPrice, operatorId,
                             currentCommandId>>)]_vars

\* C13: every command pulled so far has been acknowledged exactly once.
C13_AckedExactlyOnce ==
    \A id \in 1..MaxCmds : acks[id] = IF id <= cmdSeq THEN 1 ELSE 0

\* C14: in AUTHORIZED, before the start key, the pump is off.
C14_AuthorizedPumpOff == state = "AUTHORIZED" => ~pumpRunning

\* the two states in front of the PIN gate
GateStates == {"LOCKED", "ENTER_PIN"}

\* C15: the attempt counter rises only by a wrong confirmation, by one; the
\* engine goes to LOCKED with the lockout stamped exactly when the counter
\* reaches MAX_PIN_ATTEMPTS and stays in ENTER_PIN below it; a correct PIN
\* zeroes the counter and enters WAIT_DASHBOARD; the counter never exceeds the
\* maximum and is below it in ENTER_PIN.
C15_LockoutAtMaxAttempts ==
    [][/\ pinAttempts' <= MAX_PIN_ATTEMPTS
       /\ state' = "ENTER_PIN" => pinAttempts' < MAX_PIN_ATTEMPTS
       /\ pinAttempts' > pinAttempts
             => /\ state = "ENTER_PIN" /\ pinEntry # OPERATOR_PIN
                /\ pinAttempts' = pinAttempts + 1 /\ pinEntry' = <<>>
                /\ IF pinAttempts' = MAX_PIN_ATTEMPTS
                   THEN state' = "LOCKED" /\ sinceLockout' = 1500
                   ELSE state' = "ENTER_PIN"
       /\ (state = "ENTER_PIN" /\ pinEntry = OPERATOR_PIN)
             => LET r == handleKeypad(In, "#", 0)
                IN r.state = "WAIT_DASHBOARD" /\ r.pinAttempts = 0
       /\ (state = "ENTER_PIN" /\ state' = "WAIT_DASHBOARD")
             => pinEntry = OPERATOR_PIN /\ pinAttempts' = 0]_vars

\* C15 witness: the third wrong confirmation has just locked the engine
C15_LockedOutAtThird ==
    /\ state = "LOCKED" /\ pinAttempts = MAX_PIN_ATTEMPTS
    /\ sinceLockout = 1500 /\ sinceCalc = 2700

\* C16: while the lockout runs, no step leaves LOCKED, opens the PIN entry or
\* changes the attempt counter, and 'A' is refused; once LOCKOUT_DURATION_MS
\* has passed, 'A' opens the PIN entry with the counter at zero.
C16_LockoutRejectsThenExpires ==
    [][/\ (state = "LOCKED" /\ pinAttempts >= MAX_PIN_ATTEMPTS
           /\ sinceLockout < LOCKOUT_DURATION_MS)
             => /\ state' = "LOCKED" /\ pinAttempts' = pinAttempts
                /\ pinEntry' = pinEntry
                /\ LET r == handleKeypad(In, "A", 0)
                   IN /\ r.state = "LOCKED" /\ r.pinAttempts = pinAttempts
                      /\ r.pinEntry = pinEntry /\ r.lcd = "LOCKED OUT!"
       /\ (state = "LOCKED" /\ pinAttempts >= MAX_PIN_ATTEMPTS
           /\ sinceLockout >= LOCKOUT_DURATION_MS)
             => LET r == handleKeypad(In, "A", 0)
                IN r.state = "ENTER_PIN" /\ r.pinAttempts = 0
       /\ (state = "LOCKED" /\ pinAttempts >= MAX_PIN_ATTEMPTS
           /\ state' = "ENTER_PIN")
             => sinceLockout >= LOCKOUT_DURATION_MS /\ pinAttempts' = 0]_vars

\* C16 witness: a login has been refused part way through the lockout
C16_LoginRefused ==
    /\ state = "LOCKED" /\ pinAttempts = MAX_PIN_ATTEMPTS
    /\ lcd = "LOCKED OUT!"
    /\ sinceLockout > 1500 /\ sinceLockout < LOCKOUT_DURATION_MS

\* C17: the engine leaves LOCKED and ENTER_PIN only by confirming an entry
\* equal to the configured PIN, and then enters WAIT_DASHBOARD.
C17_PinGate ==
    [][(state \in GateStates /\ state' \notin GateStates)
          => (/\ state = "ENTER_PIN" /\ pinEntry = OPERATOR_PIN
              /\ state' = "WAIT_DASHBOARD")]_vars

\* C17 witness: the correct PIN has just been confirmed
C17_PinAccepted ==
    /\ state = "WAIT_DASHBOARD" /\ sinceCalc = 800
    /\ pinAttempts = 0 /\ pinEntry = <<>>

\* the calibration profile in memory and in the store
Profile == <<pulsesPerLiter, stopLagMs, stopExtraPulses>>
Persisted == <<nvs.ppl, nvs.stopLag, nvs.stopExtra>>

\* C18: the profile in memory is within its ranges in every state after boot
C18_ProfileInRange ==
    /\ pulsesPerLiter \in MIN_PPL..MAX_PPL
    /\ stopLagMs \in 0..MAX_STOP_LAG
    /\ stopExtraPulses \in 0..MAX_STOP_EXTRA

\* C19: outside the tuning state the profile in memory is the persisted one
C19_ProfilePersisted == state # "CAL_OVERSHOOT" => Profile = Persisted

\* the measured volume that equals the reference dispense, as typed
Nominal == <<"1", "0", "0", "0">>

\* C20: confirming a measurement of 1000 mL returns to the menu with
\* pulsesPerLiter, in memory and in the store, as it was: in every step that
\* confirms it, and for every pulsesPerLiter of the valid range put in the
\* place of the current one.
C20_NominalKeepsPPL ==
    [][(state = "CAL_REAL_VOL" /\ calInput = Nominal)
          => /\ state' = "CAL_MENU"
                   => pulsesPerLiter' = pulsesPerLiter /\ nvs'.ppl = pulsesPerLiter
             /\ \A ppl \in MIN_PPL..MAX_PPL :
                   LET r == handleKeypad([In EXCEPT !.pulsesPerLiter = ppl], "#", 0)
                   IN /\ r.state = "CAL_MENU" /\ r.calInput = <<>>
                      /\ r.pulsesPerLiter = ppl /\ r.nvs.ppl = ppl]_vars

\* C20 witness: 1000 mL has just been confirmed on the default calibration,
\* which no other measurement leads to
C20_NominalConfirmed ==
    /\ state = "CAL_MENU" /\ sinceCalc = 2000
    /\ pulsesPerLiter = DEFAULT_PPL /\ nvs.ppl = DEFAULT_PPL

\* the step that confirms a typed measured volume: nothing else empties the
\* entry while the engine is in CAL_REAL_VOL
Confirmed == state = "CAL_REAL_VOL" /\ calInput # <<>> /\ calInput' = <<>>

\* C21: a confirmed measurement within 100..5000 mL whose new value
\* old * 1000 / measured is within [50, 2000] sets pulsesPerLiter to it, in
\* memory and in the store, and returns to the menu; any other confirmed
\* measurement leaves pulsesPerLiter and the store as they were and stays in
\* CAL_REAL_VOL with the entry cleared.
C21_ConfirmAppliesOrRejects ==
    [][Confirmed
          => LET realML == ToNumber(calInput)
                 old == pulsesPerLiter
             IN IF /\ realML >= 100 /\ realML <= 5000
                   /\ old * 1000 >= 50 * realML /\ old * 1000 <= 2000 * realML
                THEN /\ pulsesPerLiter' = Round(old * 1000, realML)
                     /\ nvs'.ppl = pulsesPerLiter'
                     /\ state' = "CAL_MENU"
                ELSE /\ pulsesPerLiter' = old /\ nvs' = nvs
                     /\ state' = "CAL_REAL_VOL"]_vars

\* C21 witness: a measurement has just been rejected (the 1500 ms message)
\* on the default calibration
C21_MeasurementRejected ==
    /\ state = "CAL_REAL_VOL" /\ calInput = <<>> /\ sinceCalc = 1500
    /\ pulsesPerLiter = DEFAULT_PPL /\ nvs.ppl = DEFAULT_PPL

\* C22: in CAL_OVERSHOOT, '2' adds one to stopExtraPulses up to 300 and '8'
\* takes one off down to 0, both leaving the store alone and the state
\* unchanged; '#' makes the stored value the one in memory; '*' makes the one
\* in memory the stored value and leaves the store alone; both end in CAL_MENU.
C22_TuneSaveDiscard ==
    state = "CAL_OVERSHOOT" =>
       LET up == handleKeypad(In, "2", 0)
           down == handleKeypad(In, "8", 0)
           save == handleKeypad(In, "#", 0)
           discard == handleKeypad(In, "*", 0)
       IN /\ stopExtraPulses \in 0..300
          /\ up.stopExtraPulses = IF stopExtraPulses < 300
                                  THEN stopExtraPulses + 1 ELSE 300
          /\ down.stopExtraPulses = IF stopExtraPulses > 0
                                    THEN stopExtraPulses - 1 ELSE 0
          /\ up.nvs = nvs /\ down.nvs = nvs
          /\ up.state = "CAL_OVERSHOOT" /\ down.state = "CAL_OVERSHOOT"
          /\ save.nvs.stopExtra = stopExtraPulses
          /\ save.stopExtraPulses = stopExtraPulses
          /\ save.state = "CAL_MENU"
          /\ discard.stopExtraPulses = nvs.stopExtra
          /\ discard.nvs = nvs
          /\ discard.state = "CAL_MENU"

\* C22 witness: tuned down from 300, saved, and tuned up again to the bound
C22_TunedToBound ==
    /\ state = "CAL_OVERSHOOT" /\ stopExtraPulses = MAX_STOP_EXTRA
    /\ nvs.stopExtra = MAX_STOP_EXTRA - 1

\* the step in which calculateFlow samples: it is due, and the period
\* restarts or the settling window closes (flowISR changes neither)
Tick ==
    /\ sinceCalc >= SAMPLE_PERIOD_MS
    /\ sinceCalc' # sinceCalc \/ settlingActive' # settlingActive

\* C23: the target of a calibration dispense is pulsesPerLiter pulses (one
\* liter); a tick that finds the pump on turns it off and opens
\* the settling window if the snapshot has reached the target, and otherwise
\* leaves it on unless it raises the no-flow fault, whatever
\* stopExtraPulses, stopLagMs and the flow are.
C23_ReferenceStopsAtTarget ==
    [][/\ state = "CAL_DISPENSE" => targetPulses = pulsesPerLiter
       /\ (Tick /\ state = "CAL_DISPENSE" /\ pumpRunning /\ ~settlingActive)
             => IF pulseCount >= targetPulses
                THEN /\ ~pumpRunning' /\ settlingActive'
                     /\ state' = "CAL_DISPENSE" /\ flowInterruptAttached'
                ELSE \/ pumpRunning' /\ ~settlingActive' /\ state' = "CAL_DISPENSE"
                     \/ /\ state' = "FAULT" /\ pulseCount = lastPulseCount
                        /\ sincePulse > NO_FLOW_TIMEOUT_MS]_vars

\* C23 witness: the pump has just been stopped at exactly the target, with
\* the largest overshoot compensation and stop lag configured
C23_StoppedAtTarget ==
    /\ state = "CAL_DISPENSE" /\ ~pumpRunning /\ settlingActive /\ sinceSettle = 0
    /\ pulseCount = targetPulses /\ lastPulseCount = targetPulses
    /\ stopExtraPulses = MAX_STOP_EXTRA /\ stopLagMs = MAX_STOP_LAG

\* the calibration sub-states
CalStates == {"CAL_MENU", "CAL_DISPENSE", "CAL_REAL_VOL", "CAL_OVERSHOOT"}

\* C24: in every calibration sub-state the key '*' leads to WAIT_DASHBOARD
\* with the pump off and the sensor detached, the pump-off and the detach
\* being the first effects when a calibration dispense is under way.
C24_CancelExitsCalibration ==
    state \in CalStates =>
       LET r == handleKeypad(In, "*", 0)
       IN /\ r.state = "WAIT_DASHBOARD"
          /\ ~r.pumpRunning /\ ~r.flowInterruptAttached
          /\ (state = "CAL_DISPENSE" /\ pumpRunning /\ flowInterruptAttached)
                => r.io = <<"pumpOff", "detachFlow">>

\* C25: no figure of the ledger ever decreases; the ledger changes only in
\* the step that enters COMPLETE; every entry into COMPLETE adds exactly one
\* transaction; the stored ledger is the one in memory after every step.
C25_LedgerOnlyOnComplete ==
    [][/\ sales'.transactionCount >= sales.transactionCount
       /\ sales'.salesTotal_L >= sales.salesTotal_L
       /\ sales'.salesTotal_K >= sales.salesTotal_K
       /\ sales' # sales => state # "COMPLETE" /\ state' = "COMPLETE"
       /\ (state # "COMPLETE" /\ state' = "COMPLETE")
             => /\ sales'.transactionCount = sales.transactionCount + 1
                /\ sales'.salesTotal_L = sales.salesTotal_L + dispensed_L'
       /\ salesNvs' = sales']_vars

\* C25 witness: the second sale of a run has just been recorded
C25_SecondSale ==
    /\ state = "COMPLETE" /\ sinceComplete = 0
    /\ sales.transactionCount = 2 /\ sales.salesTotal_L > dispensed_L
    /\ salesNvs = sales

\* C26: a tick of a dispense session, dispensing or paused, never reports
\* less than the tick before it
C26_DispensedNeverDecreases ==
    [][(Tick /\ state \in {"DISPENSING", "PAUSED"})
          => dispensed_L' >= dispensed_L]_vars

\* in the call log, the interrupt is detached before it is attached again
DetachedFirst(log) ==
    \E i \in 1..Len(log) :
       log[i] = "detachFlow" /\ \A j \in 1..(i - 1) : log[j] # "attachFlow"

\* C27: the counter always equals the runs of the ISR since the last reset;
\* the snapshot a tick keeps is that number; the counter goes down only to
\* zero, and then the interrupt was detached before the write.
C27_CounterIsEdgeCount ==
    [][/\ pulseCount' = edges'
       /\ Tick => lastPulseCount' = edges
       /\ pulseCount' < pulseCount
             => /\ pulseCount' = 0
                /\ flowInterruptAttached => DetachedFirst(io')]_vars

\* C27 witness: a tick has taken its snapshot of a counter the ISR has run up
\* while the pump coasts, after a reset at the start of the dispense
C27_SnapshotTaken ==
    /\ state = "DISPENSING" /\ settlingActive /\ flowInterruptAttached
    /\ edges >= 5 /\ lastPulseCount = edges /\ pulseCount = edges

\* the tick at which an open settling window has lasted its time: the sensor,
\* attached until now, is detached, and the volume is that of the final count
Expiry ==
    /\ Tick /\ settlingActive /\ sinceSettle >= POST_PUMP_SETTLE_MS
    /\ flowInterruptAttached /\ ~flowInterruptAttached' /\ ~settlingActive'
    /\ dispensed_L' = Volume(edges', pulsesPerLiter)

\* C28: a settling window opens with a pump-off and keeps the sensor
\* attached; COMPLETE is entered only from DISPENSING and CAL_REAL_VOL only
\* from CAL_DISPENSE, both only at the expiry of a window.
C28_EnteredAtExpiry ==
    [][/\ (settlingActive' /\ ~settlingActive)
             => ~pumpRunning' /\ sinceSettle' = 0 /\ Head(io') = "pumpOff"
       /\ settlingActive' => flowInterruptAttached'
       /\ (state' = "COMPLETE" /\ state # "COMPLETE")
             => state = "DISPENSING" /\ Expiry
       /\ (state' = "CAL_REAL_VOL" /\ state # "CAL_REAL_VOL")
             => state = "CAL_DISPENSE" /\ Expiry]_vars

\* C28 witness: a dispense has just completed on a final count that is one
\* pulse above the snapshot of the tick
C28_CompletedOnFinalCount ==
    /\ state = "COMPLETE" /\ sinceComplete = 0 /\ ~flowInterruptAttached
    /\ pulseCount = lastPulseCount + 1
    /\ dispensed_L = Volume(pulseCount, pulsesPerLiter)

\* C29: in scenario A the target is 1315 pulses; the stop point of every
\* tick is between 263 * 5 * 0.9 and 263 * 5 pulses; the tick turns the pump
\* off when the snapshot has reached the stop point, which it does below the
\* target, and the pump is never on with the count at the target.
C29_ScenarioA ==
    [][/\ state = "DISPENSING" => targetPulses = 1315
       /\ (state = "DISPENSING" /\ pumpRunning) => pulseCount < targetPulses
       /\ (Tick /\ state = "DISPENSING" /\ pumpRunning /\ ~settlingActive)
             => LET stopAt == StopAt(targetPulses, pulseCount - lastPulseCount,
                                     sinceCalc, pulsesPerLiter, stopLagMs,
                                     stopExtraPulses)
                IN /\ 10 * stopAt >= 263 * 5 * 9
                   /\ stopAt <= 263 * 5
                   /\ IF pulseCount >= stopAt
                      THEN ~pumpRunning' /\ settlingActive'
                      ELSE pumpRunning']_vars

\* C29 witness: the pump has just been stopped short of the target
C29_StoppedBeforeTarget ==
    /\ state = "DISPENSING" /\ ~pumpRunning /\ settlingActive /\ sinceSettle = 0
    /\ targetPulses = 1315 /\ pulseCount \in 1184..1314
    /\ pulsesPerLiter = 263 /\ stopLagMs = 300 /\ stopExtraPulses = 20

\* C30: every way into DISPENSING (start from AUTHORIZED, resume from PAUSED)
\* and into CAL_DISPENSE restarts the no-flow timer; a tick that sees new
\* pulses restarts it; the no-flow fault is raised only by a tick that sees
\* no new pulse with more than NO_FLOW_TIMEOUT_MS on the timer.
C30_NoFlowTimerRearmed ==
    [][/\ (state # "DISPENSING" /\ state' = "DISPENSING")
             => state \in {"AUTHORIZED", "PAUSED"} /\ sincePulse' = 0
       /\ (state # "CAL_DISPENSE" /\ state' = "CAL_DISPENSE") => sincePulse' = 0
       /\ (Tick /\ state \in PumpStates /\ state' = state
           /\ pulseCount > lastPulseCount) => sincePulse' = 0
       /\ (state # "FAULT" /\ state' = "FAULT" /\ lcd' = "NO FLOW! Check")
             => /\ Tick /\ state \in PumpStates /\ pumpRunning
                /\ pulseCount = lastPulseCount
                /\ sincePulse > NO_FLOW_TIMEOUT_MS]_vars

\* C30 witness: a dispense that had counted pulses has just been resumed
C30_Resumed ==
    /\ state = "DISPENSING" /\ pumpRunning /\ io = <<"attachFlow", "pumpOn">>
    /\ pulseCount > 0 /\ sincePulse = 0

\* C31: whenever the state is WAIT_DASHBOARD the session fields are cleared:
\* no target, no target pulses, pulse counter 0, dispensed volume 0, no
\* current command, settling inactive.
C31_SessionClearedWhileWaiting ==
    state = "WAIT_DASHBOARD" =>
       /\ target_L = 0 /\ targetPulses = 0 /\ pulseCount = 0 /\ dispensed_L = 0
       /\ currentCommandId = 0 /\ ~settlingActive

\* C32: in ENTER_PIN the entry holds at most MAX_PIN_LENGTH digits, before
\* and after any digit; backspace on an empty entry changes nothing; '*'
\* leads to LOCKED with the entry cleared and the attempt counter as it was.
C32_PinEntryBounded ==
    state = "ENTER_PIN" =>
       /\ Len(pinEntry) <= MAX_PIN_LENGTH
       /\ \A key \in Digits :
             LET r == handleKeypad(In, key, 0)
             IN /\ Len(r.pinEntry) <= MAX_PIN_LENGTH
                /\ r = IF Len(pinEntry) < MAX_PIN_LENGTH
                       THEN [In EXCEPT !.pinEntry = Append(@, key)] ELSE In
       /\ pinEntry = <<>> => handleKeypad(In, "B", 0) = In
       /\ handleKeypad(In, "*", 0) = [In EXCEPT !.state = "LOCKED", !.pinEntry = <<>>]

\* C32 witness: after a failed attempt the entry is full, and one of the
\* entries the operator sets out to type has a further digit
C32_EntryFull ==
    /\ state = "ENTER_PIN" /\ Len(pinEntry) = MAX_PIN_LENGTH /\ pinAttempts > 0
    /\ \E t \in PinTries : Len(t) > MAX_PIN_LENGTH /\ IsPrefix(pinEntry, t)

C34_DispenseEnds == (state \in PumpStates) ~> (state \notin PumpStates)

\* the states of a dispense session that has been authorized
SessionStates == {"AUTHORIZED", "DISPENSING", "PAUSED"}

\* the receipts in a call log
Receipts(log) ==
    SelectSeq(log, LAMBDA x : x \in {"receipt:DONE", "receipt:CANCELED",
                                     "receipt:EMERGENCY_STOP"})

\* C35: with WiFi up, the step that ends an authorized session (to COMPLETE,
\* to WAIT_DASHBOARD by cancel or remote pump-off, to FAULT) emits exactly one
\* receipt: DONE exactly when COMPLETE is entered, EMERGENCY_STOP for a remote
\* pump-off, CANCELED for the operator's cancel; leaving COMPLETE or FAULT
\* emits none.
C35_OneReceiptPerSession ==
    [][/\ (wifiConnected /\ state \in SessionStates
           /\ state' \in {"COMPLETE", "WAIT_DASHBOARD", "FAULT"})
             => /\ Len(Receipts(io')) = 1
                /\ (Receipts(io')[1] = "receipt:DONE") <=> (state' = "COMPLETE")
                /\ (state' = "WAIT_DASHBOARD" /\ Pulled("PUMP_OFF"))
                      => Receipts(io')[1] = "receipt:EMERGENCY_STOP"
                /\ (state' = "WAIT_DASHBOARD" /\ ~Pulled("PUMP_OFF"))
                      => Receipts(io')[1] = "receipt:CANCELED"
       /\ (state \in {"COMPLETE", "FAULT"} /\ state' # state)
             => Receipts(io') = <<>>]_vars

\* C36: in AUTHORIZED, DISPENSING and PAUSED the target is within
\* MIN_LITERS..MAX_LITERS; in DISPENSING and PAUSED targetPulses is
\* round(target_L * pulsesPerLiter) and is positive.
C36_TargetInRange ==
    /\ state \in SessionStates
          => target_L >= MIN_LITERS_ML /\ target_L <= MAX_LITERS_ML
    /\ state \in {"DISPENSING", "PAUSED"}
          => /\ targetPulses = PulsesFor(target_L, pulsesPerLiter)
             /\ targetPulses > 0

\* C37: after every step the flow interrupt is attached only if the state is
\* DISPENSING or CAL_DISPENSE, and a step taken outside these two states
\* leaves the pulse counter as it is or zeroes it.
C37_AttachedOnlyWhileDispensing ==
    [][/\ flowInterruptAttached' => state' \in PumpStates
       /\ state \notin PumpStates
             => pulseCount' = pulseCount \/ pulseCount' = 0]_vars

\* C37 witness: the no-flow fault has just ended a dispense that had counted
\* pulses, and has detached the interrupt
C37_DetachedOnFault ==
    /\ state = "FAULT" /\ lcd = "NO FLOW! Check" /\ ~flowInterruptAttached
    /\ io = <<"pumpOff", "detachFlow">> /\ pulseCount > 0

====
